---- MODULE Spec2Model ----
(***************************************************************************)
(* Model of django_critical_css.utils.extract_rules: the pattern compiler, *)
(* the rule matcher, the container rewriter and the extraction driver.     *)
(*                                                                         *)
(* Texts (selector texts, wanted entries) are sequences of one-character   *)
(* strings, so that the regular expressions of the source can be matched   *)
(* position by position.  A rule object is a record; its identity is the   *)
(* field id: the path of the rule in the parsed sheet, or <<0>> \o path for *)
(* the container object that process_container allocates while rewriting   *)
(* the input container at that path.  <<>> names the parsed sheet and <<0>> *)
(* the output sheet.                                                       *)
(***************************************************************************)
EXTENDS Integers, Sequences, FiniteSets, TLC

VARIABLES sheet, wanted_selectors, output, parent, pc,
          css_file, endpoint_response, call, result,
          db, cache, queue, request, job, cmd, service, last

\* The state of one extract_rules call, of the calls of the three entry
\* points of utils.py, of the middleware with its task, and of the generate
\* commands.
extractVars == <<sheet, wanted_selectors, output, parent, pc>>

callVars == <<css_file, endpoint_response, call, result>>

webVars == <<cache, queue, request, job>>

cmdVars == <<cmd, service, last>>

vars == <<extractVars, callVars, db, webVars, cmdVars>>

\* ------------------------------------------------------------------ bounds
\* Largest number of rule objects (at any depth) in a sheet of the tree family.
MaxRules == 3
\* Largest number of rule objects in a sheet of the matcher family.
MaxMatchRules == 1
\* Largest number of entries in one field of a matcher-family WantedSelectors.
MaxWanted == 1
\* Largest number of rule objects in the CSS given to a direct extract_rules call.
MaxCallRules == 2
\* Largest number of rule objects in the CSS given to the legacy entry point
\* and to the endpoint-response adapter.
MaxAdapterRules == 1
\* Longest array of an endpoint response.
MaxArray == 2

\* ------------------------------------------------------------ characters
Letters ==
    {"a","b","c","d","e","f","g","h","i","j","k","l","m",
     "n","o","p","q","r","s","t","u","v","w","x","y","z",
     "A","B","C","D","E","F","G","H","I","J","K","L","M",
     "N","O","P","Q","R","S","T","U","V","W","X","Y","Z"}

Digits == {"0","1","2","3","4","5","6","7","8","9"}

\* The characters the regex class \w matches.
WordChars == Letters \cup Digits \cup {"_"}

\* The characters the regex class \s matches.
Whitespace == {" ", "\t", "\n", "\r", "\f"}

IsWord(c) == c \in WordChars

\* \b at offset i of s (i characters lie before it).
WordBoundary(s, i) ==
    LET before == IF i >= 1 THEN IsWord(s[i]) ELSE FALSE
        after  == IF i < Len(s) THEN IsWord(s[i + 1]) ELSE FALSE
    IN before # after

\* The group (\b|:|::|$|\s|,|\+|~|>) shared by the four pattern kinds;
\* extra holds the further alternatives of the element pattern.
Terminator(s, i, extra) ==
    \/ WordBoundary(s, i)
    \/ i = Len(s)
    \/ /\ i < Len(s)
       /\ s[i + 1] \in ({":", ",", "+", "~", ">"} \cup Whitespace \cup extra)

\* ------------------------------------------------------- pattern compiler
\* re.escape: every character of the entry becomes an atom that matches
\* exactly that character.
Escape(text) == [i \in 1..Len(text) |-> [kind |-> "lit", ch |-> text[i]]]

\* Mutation: whitespace is allowed before every character of the entry.
EscapeCombinationLoose(text) ==
    [i \in 1..(2 * Len(text)) |->
        IF i % 2 = 1 THEN [kind |-> "ws*", ch |-> " "]
        ELSE [kind |-> "lit", ch |-> text[i \div 2]]]

\* re.escape(combination).replace(r"\ ", r"\s*"): an escaped space becomes \s*.
EscapeCombination(text) ==
    [i \in 1..Len(text) |->
        IF text[i] = " " THEN [kind |-> "ws*", ch |-> " "]
        ELSE [kind |-> "lit", ch |-> text[i]]]

Lit(c) == <<[kind |-> "lit", ch |-> c]>>

ClassPattern(cls) ==
    [lead |-> FALSE, body |-> Lit(".") \o Escape(cls), extra |-> {}]

IdPattern(id_name) ==
    [lead |-> FALSE, body |-> Lit("#") \o Escape(id_name), extra |-> {}]

ElementPattern(element) ==
    [lead |-> TRUE, body |-> Escape(element), extra |-> {".", "[", "#"}]

CombinationPattern(combination) ==
    [lead |-> TRUE, body |-> EscapeCombination(combination), extra |-> {}]

FieldNames == {"classes", "ids", "elements", "combinations"}

\* wanted_selectors.get(key): the value, or the empty set standing for None
\* (both are falsy, and the code only tests the truth value before iterating).
Get(w, key) == IF key \in DOMAIN w THEN w[key] ELSE {}

Patterns(w) ==
    {ClassPattern(cls) : cls \in Get(w, "classes")}
      \cup {IdPattern(id_name) : id_name \in Get(w, "ids")}
      \cup {ElementPattern(element) : element \in Get(w, "elements")}
      \cup {CombinationPattern(c) : c \in Get(w, "combinations")}

\* ------------------------------------------------------------ regex search
\* Offsets at which the atoms body[k..] can end when they start at offset i.
RECURSIVE BodyEnds(_, _, _, _)
BodyEnds(body, k, s, i) ==
    IF k > Len(body) THEN {i}
    ELSE IF body[k].kind = "lit"
         THEN IF i < Len(s) /\ s[i + 1] = body[k].ch
              THEN BodyEnds(body, k + 1, s, i + 1)
              ELSE {}
         ELSE UNION {BodyEnds(body, k + 1, s, j) :
                       j \in {j \in i..Len(s) :
                                \A m \in (i + 1)..j : s[m] \in Whitespace}}

\* pattern.search(selector_text)
Search(p, s) ==
    \E i \in 0..Len(s) :
        /\ p.lead => WordBoundary(s, i)
        /\ \E j \in BodyEnds(p.body, 1, s, i) : Terminator(s, j, p.extra)

\* critical in selector_text
Contains(s, sub) ==
    \E i \in 0..(Len(s) - Len(sub)) :
        \A k \in 1..Len(sub) : s[i + k] = sub[k]

critical_selectors ==
    { <<"*">>, <<"h","t","m","l">>, <<"b","o","d","y">>, <<":","r","o","o","t">> }

HasCritical(s) == \E critical \in critical_selectors : Contains(s, critical)

\* Mutation: the critical-token fallback is missing.
SelectorMatchesPatternsOnly(w, selector_text) ==
    IF selector_text = <<>> THEN FALSE
    ELSE \E pattern \in Patterns(w) : Search(pattern, selector_text)

\* Mutation: with no pattern compiled nothing is filtered.
SelectorMatchesAllWhenEmpty(w, selector_text) ==
    IF selector_text = <<>> THEN FALSE
    ELSE \/ Patterns(w) = {}
         \/ \E pattern \in Patterns(w) : Search(pattern, selector_text)
         \/ HasCritical(selector_text)

\* Mutation: a selector has to match every pattern, not any one of them.
SelectorMatchesEveryPattern(w, selector_text) ==
    IF selector_text = <<>> THEN FALSE
    ELSE \/ /\ Patterns(w) # {}
            /\ \A pattern \in Patterns(w) : Search(pattern, selector_text)
         \/ HasCritical(selector_text)

SelectorMatches(w, selector_text) ==
    IF selector_text = <<>> THEN FALSE
    ELSE \/ \E pattern \in Patterns(w) : Search(pattern, selector_text)
         \/ HasCritical(selector_text)

rule_matches(rule) == SelectorMatches(wanted_selectors, rule.selectorText)

\* ------------------------------------------------------------ rule objects
NoRule ==
    [id |-> <<>>, type |-> "NONE", selectorText |-> <<>>, style |-> "",
     mediaText |-> "", conditionText |-> "", cssRules |-> <<>>]

StyleRule(id, selectorText, style) ==
    [id |-> id, type |-> "STYLE_RULE", selectorText |-> selectorText,
     style |-> style, mediaText |-> "", conditionText |-> "", cssRules |-> <<>>]

\* cssutils.css.CSSMediaRule(mediaText=...)
CSSMediaRule(id, mediaText, cssRules) ==
    [id |-> id, type |-> "MEDIA_RULE", selectorText |-> <<>>, style |-> "",
     mediaText |-> mediaText, conditionText |-> "", cssRules |-> cssRules]

\* cssutils.css.CSSSupportsRule(conditionText=...)
CSSSupportsRule(id, conditionText, cssRules) ==
    [id |-> id, type |-> "SUPPORTS_RULE", selectorText |-> <<>>, style |-> "",
     mediaText |-> "", conditionText |-> conditionText, cssRules |-> cssRules]

ContainerTypes == {"MEDIA_RULE", "SUPPORTS_RULE"}

\* The object allocated for the rewritten copy of the container with this id.
NewId(id) == <<0>> \o id

\* Mutation: the rewritten container is always a media rule.
NewContainerMediaOnly(container) ==
    CSSMediaRule(NewId(container.id), container.mediaText, <<>>)

\* The lazily created output container: same kind, same condition text.
NewContainer(container) ==
    IF container.type = "MEDIA_RULE"
    THEN CSSMediaRule(NewId(container.id), container.mediaText, <<>>)
    ELSE IF container.type = "SUPPORTS_RULE"
    THEN CSSSupportsRule(NewId(container.id), container.conditionText, <<>>)
    ELSE NoRule

\* Mutation: the rule is rebuilt from its selector, without its declarations.
AddBare(rules, r) == Append(rules, [r EXCEPT !.style = ""])

\* Mutation: the rule goes to the front of the list.
AddFirst(rules, r) == <<r>> \o rules

\* Mutation: the added rule takes the place of the rules added before it.
AddOnly(rules, r) == <<r>>

\* new_container.add(r) / output.add(rule) on a rule list: the rule object
\* itself goes to the end of the list.
Add(rules, r) == Append(rules, r)

\* ------------------------------------------------------ container rewriter
RECURSIVE process_container(_), ContainerLoop(_, _, _)

\* The body of `for r in container.cssRules` from rule i on.
ContainerLoop(container, i, new_container) ==
    IF i > Len(container.cssRules) THEN new_container
    ELSE
      LET r == container.cssRules[i]
          target == IF new_container = NoRule THEN NewContainer(container)
                    ELSE new_container
      IN IF r.type = "STYLE_RULE" /\ rule_matches(r)
         THEN ContainerLoop(container, i + 1,
                  [target EXCEPT !.cssRules = Add(@, r)])
         ELSE IF r.type \in ContainerTypes
         THEN LET nested == process_container(r)
              IN IF nested # NoRule
                 THEN ContainerLoop(container, i + 1,
                          [target EXCEPT !.cssRules = Add(@, nested)])
                 ELSE ContainerLoop(container, i + 1, new_container)
         ELSE ContainerLoop(container, i + 1, new_container)

\* Mutation: a container none of whose rules is kept is emitted with its
\* first rule of another type.
process_container_other(container) ==
    LET kept == ContainerLoop(container, 1, NoRule)
        others == {i \in 1..Len(container.cssRules) :
                     container.cssRules[i].type
                       \notin ContainerTypes \cup {"STYLE_RULE"}}
    IN IF kept = NoRule /\ others # {}
       THEN [NewContainer(container) EXCEPT
               !.cssRules = <<container.cssRules[CHOOSE i \in others :
                                                   \A j \in others : i <= j]>>]
       ELSE kept

\* Mutation: the output container is created before the loop, not lazily.
process_container_eager(container) ==
    ContainerLoop(container, 1, NewContainer(container))

process_container(container) == ContainerLoop(container, 1, NoRule)

\* ------------------------------------------------------- extraction driver
\* The body of `for rule in sheet` from rule i on.
RECURSIVE SheetLoop(_, _, _)
SheetLoop(rules, i, out) ==
    IF i > Len(rules) THEN out
    ELSE
      LET rule == rules[i]
      IN IF rule.type = "STYLE_RULE" /\ rule_matches(rule)
         THEN SheetLoop(rules, i + 1, Add(out, rule))
         ELSE IF rule.type \in ContainerTypes
         THEN LET nested == process_container(rule)
              IN IF nested # NoRule
                 THEN SheetLoop(rules, i + 1, Add(out, nested))
                 ELSE SheetLoop(rules, i + 1, out)
         ELSE SheetLoop(rules, i + 1, out)

\* ------------------------------------------------------------ parent links
\* All rule objects of a rule list, at any depth.
RECURSIVE Descendants(_)
Descendants(rules) ==
    UNION {{rules[i]} \cup Descendants(rules[i].cssRules) : i \in 1..Len(rules)}

\* The owner each object of the list gets when it is added: the sheet or
\* container `owner` for the rules of the list, the rule itself for its
\* children.
RECURSIVE Owners(_, _)
Owners(rules, owner) ==
    UNION {{<<rules[i].id, owner>>} \cup Owners(rules[i].cssRules, rules[i].id)
             : i \in 1..Len(rules)}

\* add() sets the parent link of the rule it is given to the receiver and
\* leaves the list the rule came from alone.
ParentsAfter(par, out) ==
    LET added == Owners(out, <<0>>)
        ids == DOMAIN par \cup {a[1] : a \in added}
    IN [id \in ids |->
          IF \E a \in added : a[1] = id
          THEN (CHOOSE a \in added : a[1] = id)[2]
          ELSE par[id]]

\* ------------------------------------------------------------ parsed input
Front(s) == SubSeq(s, 1, Len(s) - 1)

Comment(id) ==
    [id |-> id, type |-> "COMMENT", selectorText |-> <<>>, style |-> "",
     mediaText |-> "", conditionText |-> "", cssRules |-> <<>>]

\* An @font-face rule: declarations, no selector.
FontFace(id) ==
    [id |-> id, type |-> "FONT_FACE_RULE", selectorText |-> <<>>,
     style |-> "font-family: x", mediaText |-> "", conditionText |-> "",
     cssRules |-> <<>>]

MediaTexts == {"screen", "print"}

ConditionTexts == {"(display: grid)"}

Containers(id, cssRules) ==
    {CSSMediaRule(id, m, cssRules) : m \in MediaTexts}
      \cup {CSSSupportsRule(id, c, cssRules) : c \in ConditionTexts}

\* Rule lists with exactly n rule objects in all, whose first rule has the id
\* owner \o <<idx>>, and rules with exactly k rule objects (the rule and its
\* descendants); styles are the (selector, declarations) pairs of the leaves.
RECURSIVE TreesExact(_, _, _), ForestsExact(_, _, _, _)

TreesExact(k, id, styles) ==
    IF k = 1
    THEN {StyleRule(id, st.selectorText, st.style) : st \in styles}
           \cup {Comment(id), FontFace(id)} \cup Containers(id, <<>>)
    ELSE UNION {Containers(id, f) : f \in ForestsExact(k - 1, id, 1, styles)}

ForestsExact(n, owner, idx, styles) ==
    IF n = 0 THEN {<<>>}
    ELSE UNION {{<<t>> \o f : t \in TreesExact(k, owner \o <<idx>>, styles),
                              f \in ForestsExact(n - k, owner, idx + 1, styles)}
                  : k \in 1..n}

\* The parsed sheets with at most n rule objects.
Sheets(n, styles) == UNION {ForestsExact(m, <<>>, 1, styles) : m \in 0..n}

BTN == <<".","b","t","n">>
FOO == <<".","f","o","o">>
HTML == <<"h","t","m","l">>
BTN_LARGE == <<".","b","t","n","-","l","a","r","g","e">>
BTN_PRIMARY == <<".","b","t","n",".","p","r","i","m","a","r","y">>
BTN_HOVER == <<".","b","t","n",":","h","o","v","e","r">>
CARD == <<".","c","a","r","d">>
DIV == <<"d","i","v">>
DIV_CARD == <<"d","i","v",".","c","a","r","d">>
DIV__CARD == <<"d","i","v"," ",".","c","a","r","d">>
HEADER == <<"#","h","e","a","d","e","r">>
HEADER__NAVBAR == <<"#","h","e","a","d","e","r"," ",".","n","a","v","b","a","r">>
BODY == <<"b","o","d","y">>
STAR == <<"*">>
ROOT == <<":","r","o","o","t">>
TBODY_TD == <<"t","b","o","d","y"," ","t","d">>
A_STAR == <<"a"," ",">"," ","*">>
HTML_BODY == <<"h","t","m","l",","," ","b","o","d","y">>

\* Leaves of the tree family: one rule a class entry keeps, one nothing
\* keeps, one the critical tokens keep.
TreeStyles ==
    {[selectorText |-> BTN, style |-> "padding: 10px"],
     [selectorText |-> FOO, style |-> "display: none"],
     [selectorText |-> HTML, style |-> "margin: 0"]}

TreeWanted == {<<>>, [classes |-> {<<"b","t","n">>}]}

\* Selector texts of the matcher family.
Selectors ==
    {BTN, BTN_LARGE, BTN_PRIMARY, BTN_HOVER, FOO, CARD, DIV, DIV_CARD,
     DIV__CARD, HEADER, HEADER__NAVBAR, HTML, BODY, STAR, ROOT, TBODY_TD,
     A_STAR, HTML_BODY}

MatchStyles == {[selectorText |-> sel, style |-> "color: red"] : sel \in Selectors}

Entries ==
    [classes |-> {<<"b","t","n">>, <<"c","a","r","d">>},
     ids |-> {<<"h","e","a","d","e","r">>},
     elements |-> {DIV},
     combinations |-> {DIV_CARD, DIV__CARD, BTN_PRIMARY, BTN_HOVER,
                       HEADER__NAVBAR}]

\* WantedSelectors values: every field is absent or a set of at most n of its
\* entries.
FieldValues(k, n) == {e \in SUBSET Entries[k] : Cardinality(e) <= n}

Wanteds(n) ==
    {[k \in D |-> f[k]] :
        D \in SUBSET FieldNames,
        f \in {g \in [FieldNames -> UNION {FieldValues(k, n) : k \in FieldNames}] :
                 \A k \in FieldNames : g[k] \in FieldValues(k, n)}}

InitialParents(rules) == [id \in {r.id : r \in Descendants(rules)} |-> Front(id)]

\* ------------------------------------------------- values of unused state
NoFile == [intent |-> "none", css_suffix |-> FALSE, slash |-> FALSE, rules |-> <<>>]

NoResult == [status |-> "none", text |-> <<>>]

NoCall == [api |-> "none", n |-> 0, first |-> NoResult, wanted_classes |-> {}]

NoResponse ==
    [success |-> "absent",
     wantedSelectors |-> [kind |-> "absent", value |-> <<>>],
     wantedClasses |-> [kind |-> "absent", value |-> <<>>]]

NoRequest == [n |-> 0, path |-> <<>>, skipped |-> FALSE,
              critical_css |-> "unset", enqueued |-> FALSE]

NoCmd == [phase |-> "none", dry_run |-> FALSE]

NoLast == [op |-> "none", url |-> <<>>, lastmod |-> 0, force |-> FALSE,
           returned |-> "none", before |-> {}]

CallIdle ==
    /\ css_file = NoFile /\ endpoint_response = NoResponse
    /\ call = NoCall /\ result = NoResult

ExtractIdle ==
    /\ sheet = <<>> /\ wanted_selectors = <<>> /\ output = <<>>
    /\ parent = <<>> /\ pc = "idle"

NoJob == [n |-> 0, url |-> <<>>, answer |-> "none", raised |-> "none"]

WebIdle == cache = {} /\ queue = <<>> /\ request = NoRequest /\ job = NoJob

CmdIdle == cmd = NoCmd /\ service = <<>> /\ last = NoLast

\* ------------------------------------------------------------ state machine
Init ==
    /\ CallIdle /\ WebIdle /\ CmdIdle /\ db = {}
    /\ \/ /\ sheet \in Sheets(MaxRules, TreeStyles)
          /\ wanted_selectors \in TreeWanted
       \/ /\ sheet \in Sheets(MaxMatchRules, MatchStyles)
          /\ wanted_selectors \in Wanteds(MaxWanted)
    /\ output = <<>>
    /\ parent = InitialParents(sheet)
    /\ pc = "parsed"

\* extract_rules from the parsed sheet to the output sheet.
Extract ==
    /\ pc = "parsed"
    /\ output' = SheetLoop(sheet, 1, <<>>)
    /\ parent' = ParentsAfter(parent, output')
    /\ pc' = "done"
    /\ UNCHANGED <<sheet, wanted_selectors, callVars, db, webVars, cmdVars>>

Next == Extract

Spec == Init /\ [][Next]_vars

\* ------------------------------------------------------- reading the trees
InRules == Descendants(sheet)

OutRules == Descendants(output)

OutIds == {o.id : o \in OutRules}

\* The input object an output object stands for: itself for a style rule,
\* the rewritten input container for an allocated container.
Src(id) == IF id # <<>> /\ id[1] = 0 THEN Tail(id) ELSE id

\* The output object of an input rule, if the rule was kept.
Image(r) == IF r.type \in ContainerTypes THEN NewId(r.id) ELSE r.id

Kept(r) == Image(r) \in OutIds

IsContainer(r) == r.type \in ContainerTypes

IsStyle(r) == r.type = "STYLE_RULE"

\* The rule lists of the output: the sheet's and every container's.
OutLists == {output} \cup {o.cssRules : o \in OutRules}

Done == pc = "done"

NoFields(w) == \A k \in FieldNames : Get(w, k) = {}

\* The fixed tokens of the always-kept rule, as the specification lists them.
Tokens == {STAR, HTML, BODY, ROOT}

HasToken(s) == \E t \in Tokens : Contains(s, t)

\* --------------------------------------------------------------------- C1
\* C1: every media/supports container in the output, at any depth, holds at
\* least one rule, and an input container none of whose children is kept has
\* no rewritten copy in the output.
NoEmptyContainer ==
    Done =>
      /\ \A o \in OutRules : IsContainer(o) => o.cssRules # <<>>
      /\ \A c \in InRules :
           (IsContainer(c) /\ \A i \in 1..Len(c.cssRules) : ~Kept(c.cssRules[i]))
             => ~Kept(c)

\* A container with children, all dropped, is absent while the output holds
\* another rule.
NoEmptyContainerWitness ==
    /\ Done
    /\ output # <<>>
    /\ \E c \in InRules :
         /\ IsContainer(c) /\ c.cssRules # <<>> /\ ~Kept(c)
         /\ \E i \in 1..Len(c.cssRules) : IsStyle(c.cssRules[i])

\* --------------------------------------------------------------------- C2
\* sel is `.c-suffix`: one class, c followed by a hyphenated suffix.
HyphenSuffixed(sel, c) ==
    /\ Len(sel) > Len(c) + 2
    /\ sel[1] = "."
    /\ \A i \in 1..Len(c) : sel[i + 1] = c[i]
    /\ sel[Len(c) + 2] = "-"
    /\ \A i \in 2..Len(sel) : sel[i] \in WordChars \cup {"-"}

\* C2: with wanted = {classes: {c}}, a rule whose only class is c followed by
\* a hyphenated suffix and whose selector has no critical token is not kept,
\* while the rule `.c` is kept.
ClassIsWholeName ==
    \A c \in Entries.classes :
      (Done /\ wanted_selectors = [classes |-> {c}]) =>
        \A r \in InRules :
          IsStyle(r) =>
            /\ (HyphenSuffixed(r.selectorText, c) /\ ~HasToken(r.selectorText))
                 => ~Kept(r)
            /\ r.selectorText = <<".">> \o c => Kept(r)

\* --------------------------------------------------------------------- C3
\* C3: with wanted = {combinations: {k}}, a style rule whose selector text is
\* exactly k is kept, also when k begins with `.` or `#`.
CombinationKeepsExact ==
    \A k \in Entries.combinations :
      (Done /\ wanted_selectors = [combinations |-> {k}]) =>
        \A r \in InRules : (IsStyle(r) /\ r.selectorText = k) => Kept(r)

\* --------------------------------------------------------------------- C4
\* C4: every style rule of the output, at any depth, is a style rule object of
\* the input with the same selector text and the same declarations.
SubsetProperty ==
    Done =>
      \A o \in OutRules :
        IsStyle(o) =>
          \E r \in InRules :
            /\ IsStyle(r) /\ r.id = o.id
            /\ r.selectorText = o.selectorText /\ r.style = o.style

SubsetPropertyWitness ==
    /\ Done
    /\ \E o \in OutRules : IsStyle(o) /\ Len(o.id) > 1
    /\ \E r \in InRules : IsStyle(r) /\ ~Kept(r)

\* --------------------------------------------------------------------- C5
\* C5: two kept rules that are siblings in the input, A before B, are siblings
\* in the output with A before B, whether they are style rules or rewritten
\* containers.
OrderPreserved ==
    Done =>
      \A a, b \in InRules :
        (/\ Front(a.id) = Front(b.id)
         /\ a.id[Len(a.id)] < b.id[Len(b.id)]
         /\ Kept(a) /\ Kept(b))
          => \E l \in OutLists :
               \E i, j \in 1..Len(l) :
                 i < j /\ l[i].id = Image(a) /\ l[j].id = Image(b)

\* A kept style rule and a kept container are siblings.
OrderPreservedWitness ==
    /\ Done
    /\ \E a, b \in InRules :
         /\ Front(a.id) = Front(b.id) /\ a.id # b.id
         /\ Kept(a) /\ Kept(b)
         /\ IsStyle(a) /\ IsContainer(b)

\* --------------------------------------------------------------------- C6
\* C6: a style rule whose selector text contains `*`, `html`, `body` or
\* `:root` is kept for every WantedSelectors value.
AlwaysKeptTokens ==
    Done => \A r \in InRules : (IsStyle(r) /\ HasToken(r.selectorText)) => Kept(r)

\* A rule that only a token keeps: no field has an entry.
AlwaysKeptTokensWitness ==
    /\ Done
    /\ NoFields(wanted_selectors)
    /\ \E r \in InRules : IsStyle(r) /\ r.selectorText = TBODY_TD /\ Kept(r)

\* --------------------------------------------------------------------- C7
\* C7: when all four fields are empty or absent, no pattern is compiled, the
\* call completes, and a style rule is kept exactly when its selector text
\* contains a critical token.
EmptyWantedKeepsTokensOnly ==
    NoFields(wanted_selectors) =>
      /\ Patterns(wanted_selectors) = {}
      /\ pc = "parsed" => ENABLED Extract
      /\ Done => \A r \in InRules :
                   IsStyle(r) => (Kept(r) <=> HasToken(r.selectorText))

\* `.foo` is dropped and `html` is kept in one call.
EmptyWantedWitness ==
    /\ Done
    /\ NoFields(wanted_selectors)
    /\ \E r \in InRules : r.selectorText = FOO /\ ~Kept(r)
    /\ \E r \in InRules : r.selectorText = HTML /\ Kept(r)

\* --------------------------------------------------------------------- C8
\* The text without its whitespace.
StripWs(s) == SelectSeq(s, LAMBDA c : c \notin Whitespace)

\* C8: with wanted = {combinations: {k}}, k without whitespace, a rule whose
\* selector is k with whitespace inserted between its parts, and which has no
\* critical token, is not kept.
CombinationIsOneToken ==
    \A k \in Entries.combinations :
      (Done /\ wanted_selectors = [combinations |-> {k}] /\ StripWs(k) = k) =>
        \A r \in InRules :
          (/\ IsStyle(r)
           /\ r.selectorText # k
           /\ StripWs(r.selectorText) = k
           /\ ~HasToken(r.selectorText))
            => ~Kept(r)

CombinationIsOneTokenWitness ==
    /\ Done
    /\ wanted_selectors = [combinations |-> {DIV_CARD}]
    /\ \E r \in InRules : r.selectorText = DIV__CARD /\ ~Kept(r)

\* --------------------------------------------------------------------- C9
\* C9: every container of the output has the kind and the condition text of
\* the input container it rewrites, and every output object lies in the
\* rewritten copy of the container its input object lies in (in the output
\* sheet for a top-level object), so nesting paths are those of the input.
NestingPreserved ==
    Done =>
      /\ \A o \in OutRules :
           IsContainer(o) =>
             \E c \in InRules :
               /\ c.id = Src(o.id) /\ o.id = NewId(c.id)
               /\ c.type = o.type
               /\ c.mediaText = o.mediaText
               /\ c.conditionText = o.conditionText
      /\ \A a \in Owners(output, <<0>>) : a[2] = NewId(Front(Src(a[1])))

\* `@media X { @supports Y { .btn } }` with `.btn` kept.
NestingPreservedWitness ==
    /\ Done
    /\ \E o \in OutRules :
         /\ o.type = "MEDIA_RULE"
         /\ Len(o.cssRules) = 1
         /\ o.cssRules[1].type = "SUPPORTS_RULE"
         /\ Len(o.cssRules[1].cssRules) = 1
         /\ o.cssRules[1].cssRules[1].selectorText = BTN

\* -------------------------------------------------------------------- C10
\* C10: after the call the input rule tree has the same rules in the same
\* order and every input rule object has the parent link it had before.
InputNotMutated ==
    Done =>
      /\ \A i \in 1..Len(sheet) : sheet[i].id = <<i>>
      /\ \A r \in InRules :
           \A i \in 1..Len(r.cssRules) : r.cssRules[i].id = r.id \o <<i>>
      /\ \A r \in InRules : parent[r.id] = Front(r.id)

\* ===================================================== the entry points
\* The css_file argument is a string; the model keeps what the code can see of
\* it (whether it ends with ".css", whether it contains "/") together with
\* what it is: CSS text whose parse is `rules` (intent "text"), or the path of
\* a readable CSS file whose content parses to `rules` (intent "path").  CSS
\* text is a rule list without object identities.
SlashStyles == {"background: url(/btn.png)"}

CallStyles ==
    {[selectorText |-> BTN, style |-> "padding: 10px"],
     [selectorText |-> BTN, style |-> "background: url(/btn.png)"],
     [selectorText |-> FOO, style |-> "display: none"]}

\* output.cssText: the rules in order, nested as they are; object identities
\* do not appear in text.
RECURSIVE Serialize(_)
Serialize(rules) ==
    [i \in 1..Len(rules) |->
        [rules[i] EXCEPT !.id = <<>>, !.cssRules = Serialize(@)]]

\* cssutils.parseString / parseFile: new rule objects, one per rule of the
\* text, named by their place in the sheet.
RECURSIVE ParseText(_, _)
ParseText(text, owner) ==
    [i \in 1..Len(text) |->
        [text[i] EXCEPT !.id = owner \o <<i>>,
                        !.cssRules = ParseText(@, owner \o <<i>>)]]

\* "/" in css_file, for CSS text: a comment or a url(/...) value.
TextHasSlash(text) ==
    \E r \in Descendants(text) : r.type = "COMMENT" \/ r.style \in SlashStyles

TextFile(text) ==
    [intent |-> "text", css_suffix |-> FALSE, slash |-> TextHasSlash(text),
     rules |-> text]

Texts(n) == {Serialize(sh) : sh \in Sheets(n, CallStyles)}

CssFiles(n) ==
    {TextFile(t) : t \in Texts(n)}
      \cup {[intent |-> "path", css_suffix |-> TRUE, slash |-> b, rules |-> t]
              : b \in BOOLEAN, t \in Texts(n)}

Range(seq) == {seq[i] : i \in 1..Len(seq)}

WantedClassSets == {{}, {<<"b","t","n">>}}

\* Arrays of at most n entries, with their order and duplicates.
Arrays(n) ==
    UNION {[1..m -> {<<"b","t","n">>, <<"f","o","o">>}] : m \in 0..n}

ResponseObjects(n) ==
    {<<>>} \cup {[classes |-> a] : a \in Arrays(n)}
           \cup {[elements |-> a] : a \in Arrays(n)}

\* Responses of the /get-above-fold-elements endpoint: each key is absent or
\* holds a JSON value.
Responses(n) ==
    {[success |-> su, wantedSelectors |-> ws, wantedClasses |-> wc] :
        su \in {"absent", "false", "0", "true"},
        ws \in {[kind |-> "absent", value |-> <<>>],
                [kind |-> "null", value |-> <<>>],
                [kind |-> "array", value |-> <<>>]}
               \cup {[kind |-> "object", value |-> o] : o \in ResponseObjects(n)},
        wc \in {[kind |-> "absent", value |-> <<>>]}
               \cup {[kind |-> "array", value |-> a] : a \in Arrays(n)}}

\* Python truth of a JSON value of the key `success` (absent: the default False).
Truthy(v) == v \in {"true", "1"}

Raise(error) == [status |-> error, text |-> <<>>]

NewCall(api, wanted_classes) ==
    [api |-> api, n |-> 1, first |-> NoResult, wanted_classes |-> wanted_classes]

InitCall ==
    /\ WebIdle /\ CmdIdle /\ db = {}
    /\ sheet = <<>> /\ output = <<>> /\ parent = InitialParents(<<>>)
    /\ result = NoResult
    /\ \/ /\ css_file \in CssFiles(MaxCallRules)
          /\ wanted_selectors \in TreeWanted
          /\ endpoint_response = NoResponse
          /\ call = NewCall("extract_rules", {})
          /\ pc = "called"
       \/ /\ css_file \in CssFiles(MaxAdapterRules)
          /\ wanted_selectors = <<>>
          /\ endpoint_response = NoResponse
          /\ call \in {NewCall("extract_rules_legacy", wc) : wc \in WantedClassSets}
          /\ pc = "legacy_called"
       \/ /\ css_file \in CssFiles(MaxAdapterRules)
          /\ wanted_selectors = <<>>
          /\ endpoint_response \in Responses(MaxArray)
          /\ call = NewCall("extract_critical_css_from_endpoint_response", {})
          /\ pc = "response_called"

\* extract_rules_legacy: forwards {"classes": wanted_classes}.
Legacy ==
    /\ pc = "legacy_called"
    /\ wanted_selectors' = [classes |-> call.wanted_classes]
    /\ pc' = "called"
    /\ UNCHANGED <<sheet, output, parent, callVars, db, webVars, cmdVars>>

\* Mutation: the legacy list wins whenever the response carries one.
ResponseWantedLegacyFirst(r) ==
    IF r.wantedClasses.kind # "absent"
    THEN [classes |-> Range(r.wantedClasses.value)]
    ELSE IF r.wantedSelectors.kind # "absent"
    THEN [key \in DOMAIN r.wantedSelectors.value |->
            Range(r.wantedSelectors.value[key])]
    ELSE [classes |-> {}]

\* The wanted_selectors the adapter builds from a response with a truthy
\* success flag.
ResponseWanted(r) ==
    IF r.wantedSelectors.kind # "absent"
    THEN [key \in DOMAIN r.wantedSelectors.value |->
            Range(r.wantedSelectors.value[key])]
    ELSE [classes |->
            IF r.wantedClasses.kind = "absent" THEN {}
            ELSE Range(r.wantedClasses.value)]

\* extract_critical_css_from_endpoint_response up to its call of extract_rules.
Adapter ==
    /\ pc = "response_called"
    /\ IF ~Truthy(endpoint_response.success)
       THEN /\ result' = Raise("ValueError")
            /\ pc' = "raised"
            /\ UNCHANGED wanted_selectors
       ELSE IF endpoint_response.wantedSelectors.kind \in {"null", "array"}
       THEN \* wanted_selectors.items() on a value that is not a dict
            /\ result' = Raise("AttributeError")
            /\ pc' = "raised"
            /\ UNCHANGED wanted_selectors
       ELSE /\ wanted_selectors' = ResponseWanted(endpoint_response)
            /\ pc' = "called"
            /\ UNCHANGED result
    /\ UNCHANGED <<sheet, output, parent, css_file, endpoint_response, call,
                   db, webVars, cmdVars>>

\* The path-or-content test of extract_rules.
OpenedAsFile(f) == f.css_suffix \/ f.slash

\* extract_rules up to the parsed sheet: parseFile opens the file the string
\* names, parseString parses the string itself.
Dispatch ==
    /\ pc = "called"
    /\ IF OpenedAsFile(css_file) /\ css_file.intent # "path"
       THEN \* no file has CSS text for its name
            /\ result' = Raise("FileNotFoundError")
            /\ pc' = "raised"
            /\ UNCHANGED <<sheet, output, parent>>
       ELSE /\ sheet' = ParseText(css_file.rules, <<>>)
            /\ output' = <<>>
            /\ parent' = InitialParents(sheet')
            /\ pc' = "parsed"
            /\ UNCHANGED result
    /\ UNCHANGED <<wanted_selectors, css_file, endpoint_response, call,
                   db, webVars, cmdVars>>

\* return output.cssText.decode("utf-8")
Return ==
    /\ pc = "done"
    /\ call.api # "none"
    /\ result' = [status |-> "ok", text |-> Serialize(output)]
    /\ pc' = "returned"
    /\ UNCHANGED <<sheet, wanted_selectors, output, parent, css_file,
                   endpoint_response, call, db, webVars, cmdVars>>

\* The caller filters the returned CSS again with the same wanted_selectors.
Refilter ==
    /\ pc = "returned"
    /\ call.api = "extract_rules" /\ call.n = 1
    /\ css_file' = TextFile(result.text)
    /\ call' = [call EXCEPT !.n = 2, !.first = result]
    /\ result' = NoResult
    /\ pc' = "called"
    /\ UNCHANGED <<sheet, wanted_selectors, output, parent, endpoint_response,
                   db, webVars, cmdVars>>

NextCall == Legacy \/ Adapter \/ Dispatch \/ Extract \/ Return \/ Refilter

SpecCall == InitCall /\ [][NextCall]_vars

\* ------------------------------------------------- reading the entry points
DirectCall == call.api = "extract_rules"

AdapterCall == call.api = "extract_critical_css_from_endpoint_response"

Finished == pc \in {"returned", "raised"}

\* The complete filtered text of the CSS the call was given.
CompleteResult ==
    [status |-> "ok",
     text |-> Serialize(SheetLoop(ParseText(css_file.rules, <<>>), 1, <<>>))]

\* -------------------------------------------------------------------- C11
\* C11: filtering the text a call returned again, with the same
\* WantedSelectors, gives the result of the first call.
Idempotent ==
    (DirectCall /\ call.n = 2 /\ Finished) => result = call.first

\* -------------------------------------------------------------------- C12
\* C12: a call returns the complete filtered text or fails with the parser's
\* error, which only syntactically invalid CSS causes; the CSS of every call
\* here is valid, so every finished call has returned the complete text.
CompleteOrParseError ==
    (call.api \in {"extract_rules", "extract_rules_legacy"} /\ Finished) =>
      /\ pc = "raised" => result.status = "ParseError"
      /\ pc = "returned" => result = CompleteResult
      /\ pc = "returned"

\* -------------------------------------------------------------------- C13
\* C13: an argument that is CSS content is parsed as CSS text, and only an
\* argument that is a file path is opened from the filesystem.
ContentIsParsedAsText ==
    (DirectCall /\ call.n = 1 /\ pc # "called") =>
      /\ css_file.intent = "text" =>
           /\ pc # "raised"
           /\ sheet = ParseText(css_file.rules, <<>>)
      /\ css_file.intent = "path" => sheet = ParseText(css_file.rules, <<>>)

\* -------------------------------------------------------------------- C14
\* C14: with a falsy or absent `success` the adapter fails with the input
\* error before anything is parsed or extracted, and a response whose
\* wantedSelectors is present but not an object fails with the same error.
InputErrorKind ==
    (AdapterCall /\ pc # "response_called") =>
      /\ ~Truthy(endpoint_response.success) =>
           /\ pc = "raised" /\ result.status = "ValueError"
           /\ sheet = <<>> /\ output = <<>>
      /\ (/\ Truthy(endpoint_response.success)
          /\ endpoint_response.wantedSelectors.kind \in {"null", "array"}) =>
           /\ pc = "raised" /\ result.status = "ValueError"
           /\ sheet = <<>> /\ output = <<>>

\* -------------------------------------------------------------------- C15
\* The set of the elements of a JSON array.
AsSet(array) == {array[i] : i \in DOMAIN array}

\* The WantedSelectors the claim names for a response.
ClaimedWanted(r) ==
    IF r.wantedSelectors.kind = "object"
    THEN [key \in DOMAIN r.wantedSelectors.value |->
            AsSet(r.wantedSelectors.value[key])]
    ELSE [classes |-> AsSet(r.wantedClasses.value)]

\* C15: for a response with a truthy `success`, the adapter calls
\* extract_rules on the same CSS with W = wantedSelectors, arrays as sets, when
\* that key is present (wantedClasses is ignored) and with
\* W = {classes: set(wantedClasses)} otherwise, which is the W
\* extract_rules_legacy passes; the result is that of extract_rules(css, W).
AdapterForwards ==
    /\ (/\ AdapterCall /\ pc # "response_called"
        /\ Truthy(endpoint_response.success)
        /\ endpoint_response.wantedSelectors.kind \in {"absent", "object"}) =>
         /\ wanted_selectors = ClaimedWanted(endpoint_response)
         /\ pc = "returned" => result = CompleteResult
         /\ pc = "raised" =>
              /\ result.status = "FileNotFoundError"
              /\ OpenedAsFile(css_file) /\ css_file.intent = "text"
    /\ (call.api = "extract_rules_legacy" /\ pc # "legacy_called") =>
         /\ wanted_selectors = [classes |-> call.wanted_classes]
         /\ pc = "returned" => result = CompleteResult

\* wantedSelectors is used, a different wantedClasses is ignored, an array has
\* a duplicate, and a rule is kept.
AdapterForwardsWitness ==
    /\ AdapterCall /\ pc = "returned"
    /\ endpoint_response.wantedSelectors.kind = "object"
    /\ endpoint_response.wantedSelectors.value =
         [classes |-> << <<"b","t","n">>, <<"b","t","n">> >>]
    /\ endpoint_response.wantedClasses.kind = "array"
    /\ endpoint_response.wantedClasses.value = << <<"f","o","o">> >>
    /\ result.text # <<>>

\* --------------------------------------------------- middleware and task
\* Bound on the requests of one behaviour.
MaxRequests == 3

RootPath == <<"/">>

AboutPath == <<"/", "a", "b", "o", "u", "t", "/">>

AdminPath == <<"/", "a", "d", "m", "i", "n", "/">>

StaticPath == <<"/", "s", "t", "a", "t", "i", "c", "/", "a">>

ApiPath == <<"/", "a", "p", "i", "/", "v", "1">>

Paths == {RootPath, AboutPath, AdminPath, StaticPath, ApiPath}

SkipPrefixes ==
    {<<"/", "a", "d", "m", "i", "n">>,
     <<"/", "s", "t", "a", "t", "i", "c">>,
     <<"/", "a", "p", "i">>}

StartsWith(s, prefix) ==
    Len(s) >= Len(prefix) /\ SubSeq(s, 1, Len(prefix)) = prefix

Skipped(path) == \E prefix \in SkipPrefixes : StartsWith(path, prefix)

\* request.build_absolute_uri(): scheme and host before the path.
build_absolute_uri(path) == <<"https://", "example.com">> \o path

\* The cache key of a URL; sha256 is taken to be free of collisions.
cache_key(url) == <<"critical_css:", "sha256">> \o url

CssValues == {"a{}", "b{}"}

\* What the service answers to the task: no answer, an error status, an
\* answer without criticalCss, or CSS.
ServiceOutcomes == {"ConnectionError", "HTTPError", ""} \cup CssValues

\* The fields of the CriticalCSS model.
ModelFields == {"url_pattern", "css_content", "created_at", "updated_at"}

\* A table row: the model's columns and the column migration 0002 added
\* (0 is NULL); the two timestamps are left out.
Row(url_pattern, css_content, source_last_modified) ==
    [url_pattern |-> url_pattern, css_content |-> css_content,
     source_last_modified |-> source_last_modified]

Entry(rows, url_pattern) == CHOOSE e \in rows : e.url_pattern = url_pattern

Exists(rows, url_pattern) == \E e \in rows : e.url_pattern = url_pattern

\* CriticalCSS.objects.update_or_create(url_pattern=..., defaults=...): a
\* missing row is created from the defaults, which must all be model fields;
\* an existing row gets the defaults as attributes and is saved, which writes
\* the model's fields only.
update_or_create(rows, url_pattern, defaults) ==
    IF ~Exists(rows, url_pattern)
    THEN IF DOMAIN defaults \subseteq ModelFields
         THEN [rows |-> rows \cup {Row(url_pattern, defaults.css_content, 0)},
               raised |-> "none"]
         ELSE [rows |-> rows, raised |-> "FieldError"]
    ELSE LET e == Entry(rows, url_pattern)
             saved == [f \in DOMAIN e |->
                         IF f \in ModelFields /\ f \in DOMAIN defaults
                         THEN defaults[f] ELSE e[f]]
         IN [rows |-> (rows \ {e}) \cup {saved}, raised |-> "none"]

CacheHas(key) == \E e \in cache : e.key = key

\* cache.get(key): the cached value, or None.
CacheGet(key) ==
    IF CacheHas(key) THEN (CHOOSE e \in cache : e.key = key).css ELSE "None"

CacheSet(key, css) ==
    {e \in cache : e.key # key} \cup {[key |-> key, css |-> css]}

Falsy(css) == css \in {"None", ""}

Served(n, path, css, enqueued) ==
    [n |-> n, path |-> path, skipped |-> FALSE,
     critical_css |-> IF Falsy(css) THEN "None" ELSE css,
     enqueued |-> enqueued]

InitWeb == ExtractIdle /\ CallIdle /\ CmdIdle /\ WebIdle /\ db = {}

\* CriticalCSSMiddleware.process_request for one request.
ProcessRequest ==
    /\ request.n < MaxRequests
    /\ \E path \in Paths :
         IF Skipped(path)
         THEN /\ request' = [n |-> request.n + 1, path |-> path,
                             skipped |-> TRUE, critical_css |-> "unset",
                             enqueued |-> FALSE]
              /\ UNCHANGED <<cache, queue>>
         ELSE LET url == build_absolute_uri(path)
                  css == CacheGet(cache_key(url))
              IN IF ~Falsy(css)
                 THEN /\ request' = Served(request.n + 1, path, css, FALSE)
                      /\ UNCHANGED <<cache, queue>>
                 ELSE IF Exists(db, path)
                 THEN /\ cache' = CacheSet(cache_key(url),
                                           Entry(db, path).css_content)
                      /\ request' = Served(request.n + 1, path,
                                           Entry(db, path).css_content, FALSE)
                      /\ UNCHANGED queue
                 ELSE /\ queue' = Append(queue, url)
                      /\ request' = Served(request.n + 1, path, css, TRUE)
                      /\ UNCHANGED cache
    /\ UNCHANGED <<extractVars, callVars, db, job, cmdVars>>

\* The try block of the task: the table after it and the exception that
\* leaves it; requests.post and raise_for_status raise on a failure.
TryBlock(rows, url, answer) ==
    IF answer \in {"ConnectionError", "HTTPError"}
    THEN [rows |-> rows, raised |-> answer]
    ELSE IF answer # ""
    THEN update_or_create(rows, url, [css_content |-> answer])
    ELSE [rows |-> rows, raised |-> "none"]

\* Mutation: the task has no exception handler.
enqueue_critical_css_uncaught(rows, url, answer) == TryBlock(rows, url, answer)

\* enqueue_critical_css(url): `except Exception` logs whatever the try block
\* raised and the task returns.
enqueue_critical_css(rows, url, answer) ==
    LET tried == TryBlock(rows, url, answer)
    IN IF tried.raised # "none"
       THEN [rows |-> rows, raised |-> "none"]
       ELSE tried

\* One enqueue_critical_css job runs to its end.
RunJob ==
    /\ \E i \in DOMAIN queue, answer \in ServiceOutcomes :
         LET task == enqueue_critical_css(db, queue[i], answer)
         IN /\ queue' = SubSeq(queue, 1, i - 1)
                          \o SubSeq(queue, i + 1, Len(queue))
            /\ db' = task.rows
            /\ job' = [n |-> job.n + 1, url |-> queue[i], answer |-> answer,
                       raised |-> task.raised]
    /\ UNCHANGED <<extractVars, callVars, cache, request, cmdVars>>

\* An entry is created under a request path, the key the middleware reads.
CreateEntry ==
    /\ \E path \in {p \in Paths : ~Skipped(p)}, css \in CssValues :
         /\ ~Exists(db, path)
         /\ db' = db \cup {Row(path, css, 0)}
    /\ UNCHANGED <<extractVars, callVars, webVars, cmdVars>>

\* A cache entry reaches the end of its 24 hours.
Expire ==
    /\ \E e \in cache : cache' = cache \ {e}
    /\ UNCHANGED <<extractVars, callVars, db, queue, request, job, cmdVars>>

NextWeb == ProcessRequest \/ RunJob \/ CreateEntry \/ Expire

SpecWeb == InitWeb /\ [][NextWeb]_vars

\* -------------------------------------------------------------------- C16
\* C16: once a job has stored CSS for a URL, every later request for that URL
\* that is not skipped gets that CSS as request.critical_css and enqueues no
\* job; a request enqueues a job only when no CSS is stored for its URL.
ServedFromStore ==
    [][(request'.n = request.n + 1 /\ ~request'.skipped) =>
         LET url == build_absolute_uri(request'.path)
         IN /\ Exists(db, url) =>
                 /\ request'.critical_css = Entry(db, url).css_content
                 /\ queue' = queue
            /\ queue' # queue => ~Exists(db, url)]_vars

\* ------------------------------------------------------ generate commands
\* Bound on the URLs of a sitemap.
MaxUrls == 2

\* Bound on the direct calls of the command's methods in one behaviour.
MaxCalls == 2

SitemapUrls == {build_absolute_uri(RootPath), build_absolute_uri(AboutPath)}

\* Dates are numbered in time order; 0 is None.
Lastmods == {0, 1, 3}

StoredDates == {0, 2}

RECURSIVE SeqsUpTo(_, _)
SeqsUpTo(S, n) ==
    IF n = 0 THEN {<<>>}
    ELSE LET shorter == SeqsUpTo(S, n - 1)
         IN shorter \cup {Append(q, x) : q \in {t \in shorter : Len(t) = n - 1},
                                         x \in S}

\* What parse_sitemap returns: the <url> elements that have a <loc>.
Sitemaps(n) ==
    SeqsUpTo([loc : SitemapUrls, lastmod : Lastmods], n)

\* The tables the commands can find: for each URL no row, or a row with CSS.
Tables ==
    {t \in SUBSET {Row(u, "old css", d) : u \in SitemapUrls, d \in StoredDates} :
        \A e1, e2 \in t : e1.url_pattern = e2.url_pattern => e1 = e2}

NoLimit == [given |-> FALSE, n |-> 0]

\* --limit is absent or any integer.
Limits == {NoLimit} \cup {[given |-> TRUE, n |-> n] : n \in {-1, 0, 1}}

\* `if limit:` is false for None and for 0.
LimitTruthy(limit) == limit.given /\ limit.n # 0

Min(a, b) == IF a < b THEN a ELSE b

Max(a, b) == IF a > b THEN a ELSE b

\* urls_data[:n]
Slice(seq, n) ==
    IF n >= 0 THEN SubSeq(seq, 1, Min(n, Len(seq)))
    ELSE SubSeq(seq, 1, Max(Len(seq) + n, 0))

\* The summary of the run before, for a command that is run again.
NoRun == [processed |-> 0, skipped |-> 0, errors |-> 0]

Command(variant, force, dry_run, limit, clear_cache, sitemap, phase) ==
    [variant |-> variant, force |-> force, dry_run |-> dry_run,
     limit |-> limit, clear_cache |-> clear_cache, sitemap |-> sitemap,
     urls_data |-> <<>>, i |-> 1, processed |-> 0, skipped |-> 0,
     errors |-> 0, calls |-> 0, db0 |-> {}, phase |-> phase,
     run |-> 1, first |-> NoRun]

\* The command lines of the two variants; only the cached one has
\* --clear-cache.
Commands(n) ==
    {Command(variant, force, dry_run, limit, clear_cache, sitemap, "start") :
        variant \in {"basic"}, force \in BOOLEAN, dry_run \in BOOLEAN,
        limit \in Limits, clear_cache \in {FALSE}, sitemap \in Sitemaps(n)}
    \cup
    {Command(variant, force, dry_run, limit, clear_cache, sitemap, "start") :
        variant \in {"cached"}, force \in BOOLEAN, dry_run \in BOOLEAN,
        limit \in Limits, clear_cache \in BOOLEAN, sitemap \in Sitemaps(n)}

\* A command object whose methods are called one by one.
Shell == Command("basic", FALSE, FALSE, NoLimit, FALSE, <<>>, "shell")

\* should_process_url: "True", "False", or the exception that leaves it.
should_process_url(rows, url, lastmod, force) ==
    IF force THEN "True"
    ELSE IF ~Exists(rows, url) THEN "True"
    ELSE IF lastmod = 0 THEN "False"
    ELSE IF "source_last_modified" \notin ModelFields THEN "AttributeError"
    ELSE IF Entry(rows, url).source_last_modified = 0 THEN "True"
    ELSE IF lastmod > Entry(rows, url).source_last_modified THEN "True"
    ELSE "False"

PlaceholderCss == "placeholder css"

ServiceCss == "service css"

\* generate_critical_css: the table after the call and the value returned.
generate_critical_css(rows, url, lastmod) ==
    LET r == update_or_create(rows, url,
                 [css_content |-> PlaceholderCss,
                  source_last_modified |-> lastmod])
    IN IF r.raised = "none"
       THEN [rows |-> r.rows, returned |-> TRUE]
       ELSE [rows |-> rows, returned |-> FALSE]

\* generate_critical_css_cached for an answer of the service: result["success"]
\* and the table after the call.
generate_critical_css_cached(rows, url, lastmod, answer) ==
    IF answer # "success" THEN [rows |-> rows, returned |-> FALSE]
    ELSE LET r == update_or_create(rows, url,
                      [css_content |-> ServiceCss,
                       source_last_modified |-> lastmod])
         IN IF r.raised = "none"
            THEN [rows |-> r.rows, returned |-> TRUE]
            ELSE [rows |-> rows, returned |-> FALSE]

ServiceAnswers == {"success", "failure"}

ClearRequest == [method |-> "DELETE", path |-> "/cache/clear", url |-> <<>>]

GenerateRequest(url) ==
    [method |-> "POST", path |-> "/generate-critical-css-cached", url |-> url]

InitCmd ==
    /\ ExtractIdle /\ CallIdle /\ WebIdle
    /\ db \in Tables
    /\ cmd \in Commands(MaxUrls) \cup {Shell}
    /\ service = <<>>
    /\ last = NoLast

Called(op, url, lastmod, force, returned) ==
    [op |-> op, url |-> url, lastmod |-> lastmod, force |-> force,
     returned |-> returned, before |-> db]

\* A direct call of should_process_url.
CallShouldProcess ==
    /\ cmd.phase = "shell" /\ cmd.calls < MaxCalls
    /\ \E url \in SitemapUrls, lastmod \in Lastmods, force \in BOOLEAN :
         last' = Called("should_process_url", url, lastmod, force,
                        should_process_url(db, url, lastmod, force))
    /\ cmd' = [cmd EXCEPT !.calls = @ + 1]
    /\ UNCHANGED <<extractVars, callVars, db, webVars, service>>

\* A direct call of generate_critical_css.
CallGenerate ==
    /\ cmd.phase = "shell" /\ cmd.calls < MaxCalls
    /\ \E url \in SitemapUrls, lastmod \in Lastmods :
         LET g == generate_critical_css(db, url, lastmod)
         IN /\ db' = g.rows
            /\ last' = Called("generate_critical_css", url, lastmod, FALSE,
                              IF g.returned THEN "True" ELSE "False")
    /\ cmd' = [cmd EXCEPT !.calls = @ + 1]
    /\ UNCHANGED <<extractVars, callVars, webVars, service>>

\* handle up to its loop: the health check and the cache clear of the cached
\* variant, the sitemap, the limit.
CmdStart ==
    /\ cmd.phase = "start"
    /\ \E healthy \in IF cmd.variant = "cached" THEN BOOLEAN ELSE {TRUE} :
         IF ~healthy
         THEN /\ cmd' = [cmd EXCEPT !.phase = "failed", !.db0 = db]
              /\ UNCHANGED service
         ELSE /\ service' = IF cmd.clear_cache
                            THEN Append(service, ClearRequest) ELSE service
              /\ cmd' = IF cmd.sitemap = <<>>
                        THEN [cmd EXCEPT !.phase = "done", !.db0 = db]
                        ELSE [cmd EXCEPT
                                !.urls_data = IF LimitTruthy(cmd.limit)
                                              THEN Slice(cmd.sitemap, cmd.limit.n)
                                              ELSE cmd.sitemap,
                                !.phase = "loop", !.db0 = db]
    /\ UNCHANGED <<extractVars, callVars, db, webVars, last>>

Count(processed, skipped, errors) ==
    [cmd EXCEPT !.i = @ + 1, !.processed = @ + processed,
                !.skipped = @ + skipped, !.errors = @ + errors]

\* One pass of the loop of handle.
CmdStep ==
    /\ cmd.phase = "loop" /\ cmd.i <= Len(cmd.urls_data)
    /\ LET url == cmd.urls_data[cmd.i].loc
           lastmod == cmd.urls_data[cmd.i].lastmod
           should == should_process_url(db, url, lastmod, cmd.force)
       IN IF should = "False"
          THEN cmd' = Count(0, 1, 0) /\ UNCHANGED <<db, service>>
          ELSE IF should # "True"
          THEN cmd' = Count(0, 0, 1) /\ UNCHANGED <<db, service>>
          ELSE IF cmd.dry_run
          THEN cmd' = Count(1, 0, 0) /\ UNCHANGED <<db, service>>
          ELSE IF cmd.variant = "basic"
          THEN LET g == generate_critical_css(db, url, lastmod)
               IN /\ db' = g.rows
                  /\ cmd' = IF g.returned THEN Count(1, 0, 0)
                            ELSE Count(0, 0, 1)
                  /\ UNCHANGED service
          ELSE \E answer \in ServiceAnswers :
                 LET g == generate_critical_css_cached(db, url, lastmod, answer)
                 IN /\ db' = g.rows
                    /\ service' = Append(service, GenerateRequest(url))
                    /\ cmd' = IF g.returned THEN Count(1, 0, 0)
                              ELSE Count(0, 0, 1)
    /\ UNCHANGED <<extractVars, callVars, webVars, last>>

\* The loop is over: the summary is written.
CmdFinish ==
    /\ cmd.phase = "loop" /\ cmd.i > Len(cmd.urls_data)
    /\ cmd' = [cmd EXCEPT !.phase = "done"]
    /\ UNCHANGED <<extractVars, callVars, db, webVars, service, last>>

NextCmd == CallShouldProcess \/ CallGenerate \/ CmdStart \/ CmdStep \/ CmdFinish

SpecCmd == InitCmd /\ [][NextCmd]_vars

\* -------------------------------------------------------------------- C17
\* C17: should_process_url returns true whenever force is set and whenever
\* no entry exists for the url; for an entry with a source_last_modified date
\* it returns true when lastmod is strictly newer than the date and false
\* when lastmod is older, equal or missing.
ShouldProcessContract ==
    last.op = "should_process_url" =>
      /\ last.force => last.returned = "True"
      /\ ~Exists(last.before, last.url) => last.returned = "True"
      /\ (/\ ~last.force /\ Exists(last.before, last.url)
          /\ Entry(last.before, last.url).source_last_modified # 0) =>
           last.returned =
             IF /\ last.lastmod # 0
                /\ last.lastmod >
                     Entry(last.before, last.url).source_last_modified
             THEN "True" ELSE "False"

\* -------------------------------------------------------------------- C18
\* C18: a command in dry-run mode changes no entry and sends the service no
\* state-changing request.
DryRunChangesNothing ==
    [][cmd.dry_run => (db' = db /\ service' = service)]_vars

\* -------------------------------------------------------------------- C19
\* The urls whose entries the run created or updated.
ChangedUrls == {e.url_pattern : e \in db \ cmd.db0}

\* C19: a run with --limit N handles at most N URLs: at most N entries are
\* created or updated, all of them among the first N URLs of the sitemap.
LimitBoundsRun ==
    (cmd.phase = "done" /\ cmd.limit.given) =>
      /\ cmd.processed + cmd.skipped + cmd.errors <= Max(cmd.limit.n, 0)
      /\ Cardinality(ChangedUrls) <= Max(cmd.limit.n, 0)
      /\ ChangedUrls \subseteq
           {cmd.sitemap[k].loc :
              k \in 1..Min(Max(cmd.limit.n, 0), Len(cmd.sitemap))}

\* -------------------------------------------------------------------- C20
\* C20: generate_critical_css returns true and leaves exactly one entry for
\* the url, with source_last_modified = lastmod and the generated CSS; the
\* entries of other urls are unchanged and no url_pattern has two entries.
GenerateStoresEntry ==
    /\ \A e1, e2 \in db : e1.url_pattern = e2.url_pattern => e1 = e2
    /\ last.op = "generate_critical_css" =>
         /\ last.returned = "True"
         /\ Cardinality({e \in db : e.url_pattern = last.url}) = 1
         /\ \A e \in db : e.url_pattern = last.url =>
              /\ e.source_last_modified = last.lastmod
              /\ e.css_content = PlaceholderCss
         /\ {e \in db : e.url_pattern # last.url} =
              {e \in last.before : e.url_pattern # last.url}

\* ============================================ further claims on the filter
\* -------------------------------------------------------------------- C21
\* The object with this id is a rule of the output list that stands for the
\* input list of `owner`: the output sheet for the sheet, the rewritten copy
\* for a container.
Placed(id, owner) ==
    IF owner = <<>>
    THEN \E i \in 1..Len(output) : output[i].id = id
    ELSE \E o \in OutRules :
           /\ o.id = NewId(owner)
           /\ \E i \in 1..Len(o.cssRules) : o.cssRules[i].id = id

\* C21: every style rule the matcher keeps is in the output: at top level for
\* a top-level rule, and for a nested rule inside the rebuilt chain of its
\* containers, each a copy of the input container of the same kind and text.
AllKeptPresent ==
    Done =>
      \A r \in InRules :
        (IsStyle(r) /\ rule_matches(r)) =>
          /\ r \in OutRules
          /\ Placed(r.id, Front(r.id))
          /\ \A k \in 1..(Len(r.id) - 1) :
               LET cid == SubSeq(r.id, 1, k)
               IN /\ Placed(NewId(cid), Front(cid))
                  /\ \E c \in InRules, o \in OutRules :
                       /\ c.id = cid /\ o.id = NewId(cid)
                       /\ o.type = c.type
                       /\ o.mediaText = c.mediaText
                       /\ o.conditionText = c.conditionText

\* A kept rule two containers deep, a media rule inside a supports rule or
\* the like.
AllKeptPresentWitness ==
    /\ Done
    /\ \E r \in InRules :
         /\ IsStyle(r) /\ Len(r.id) = 3 /\ rule_matches(r)
         /\ r \in OutRules

\* -------------------------------------------------------------------- C22
\* C22: a whitespace run of a combinations entry k stands for one or more
\* whitespace characters: with wanted = {combinations: {k}}, k holding
\* whitespace, the rule whose selector is k is kept (k beginning with a name),
\* and the rule whose selector is k with the whitespace removed, its parts
\* adjacent, is not kept unless a critical token keeps it.
WhitespaceKeepsCombinator ==
    \A k \in Entries.combinations :
      (Done /\ wanted_selectors = [combinations |-> {k}] /\ StripWs(k) # k) =>
        \A r \in InRules :
          IsStyle(r) =>
            /\ (r.selectorText = k /\ IsWord(k[1])) => Kept(r)
            /\ (r.selectorText = StripWs(k) /\ ~HasToken(r.selectorText))
                 => ~Kept(r)

\* -------------------------------------------------------------------- C23
\* C23: a run of the task never raises to its caller; it leaves the entries
\* unchanged when the request fails, gets an error status or gets an empty
\* criticalCss, and when it gets CSS exactly one entry for the url exists
\* afterwards and holds that CSS.
TaskContract ==
    [][job'.n # job.n =>
         /\ job'.raised = "none"
         /\ job'.answer \notin CssValues => db' = db
         /\ job'.answer \in CssValues =>
              /\ Cardinality({e \in db' : e.url_pattern = job'.url}) = 1
              /\ Entry(db', job'.url).css_content = job'.answer
              /\ {e \in db' : e.url_pattern # job'.url} =
                   {e \in db : e.url_pattern # job'.url}]_vars

\* A second job for a URL has replaced the CSS the first one stored.
TaskContractWitness ==
    /\ job.n = 2 /\ job.answer = "b{}" /\ job.raised = "none"
    /\ db = {Row(job.url, "b{}", 0)}
    /\ queue = <<>>

\* -------------------------------------------------------------------- C24
\* Bound on the calls with a widened wanted_selectors in one behaviour.
MaxWidenings == 1

\* wanted_selectors with one more entry in one field.
WithEntry(w, key, entry) ==
    [f \in DOMAIN w \cup {key} |->
        IF f = key THEN Get(w, key) \cup {entry} ELSE w[f]]

\* The caller calls extract_rules again on the same CSS, parsed afresh, with
\* one entry added to wanted_selectors; the text of the call before is kept.
Widen ==
    /\ pc = "done"
    /\ call.api = "none" /\ call.n < MaxWidenings
    /\ \E key \in FieldNames :
         \E entry \in Entries[key] \ Get(wanted_selectors, key) :
           wanted_selectors' = WithEntry(wanted_selectors, key, entry)
    /\ call' = [call EXCEPT !.n = @ + 1,
                            !.first = [status |-> "ok",
                                       text |-> Serialize(output)]]
    /\ output' = <<>>
    /\ parent' = InitialParents(sheet)
    /\ pc' = "parsed"
    /\ UNCHANGED <<sheet, css_file, endpoint_response, result, db, webVars,
                   cmdVars>>

NextWiden == Extract \/ Widen

SpecWiden == Init /\ [][NextWiden]_vars

\* The rules a[i..] are present, in order, among the rules b[j..]: a style
\* rule as a rule with the same selector and declarations, a container as a
\* container of the same kind and text that holds its rules.
RECURSIVE Embeds(_, _, _, _), Holds(_, _)
Embeds(a, i, b, j) ==
    IF i > Len(a) THEN TRUE
    ELSE IF j > Len(b) THEN FALSE
    ELSE \/ Holds(b[j], a[i]) /\ Embeds(a, i + 1, b, j + 1)
         \/ Embeds(a, i, b, j + 1)

Holds(y, x) ==
    /\ y.type = x.type
    /\ y.selectorText = x.selectorText /\ y.style = x.style
    /\ y.mediaText = x.mediaText /\ y.conditionText = x.conditionText
    /\ Embeds(x.cssRules, 1, y.cssRules, 1)

\* C24: keeping is monotone in the wanted sets: every rule and every
\* container of the output for W is in the output for W with an entry added.
KeepingMonotone ==
    (Done /\ call.n >= 1) =>
      Embeds(call.first.text, 1, Serialize(output), 1)

\* The added entry keeps a rule more, next to one kept before.
KeepingMonotoneWitness ==
    /\ Done /\ call.n >= 1
    /\ call.first.text # <<>>
    /\ Serialize(output) # call.first.text

\* -------------------------------------------------------------------- C25
\* C25: the output holds style rules and media/supports containers only, at
\* any depth, and a container is in the output only for a kept style rule
\* below it: a rule of another type is never emitted and never makes its
\* container be emitted.
OnlyStylesAndContainers ==
    Done =>
      /\ \A o \in OutRules : IsStyle(o) \/ IsContainer(o)
      /\ \A r \in InRules : ~(IsStyle(r) \/ IsContainer(r)) => ~Kept(r)
      /\ \A c \in InRules :
           (IsContainer(c) /\ Kept(c)) =>
             \E r \in Descendants(c.cssRules) : IsStyle(r) /\ Kept(r)

\* A kept container with an @font-face rule in it.
OnlyStylesAndContainersWitness ==
    /\ Done
    /\ \E c \in InRules :
         /\ IsContainer(c) /\ Kept(c)
         /\ \E i \in 1..Len(c.cssRules) : c.cssRules[i].type = "FONT_FACE_RULE"

\* -------------------------------------------------------------------- C26
\* The command is run a second time on the same sitemap with the same
\* options, without --force.
CmdRerun ==
    /\ cmd.phase = "done" /\ cmd.run = 1
    /\ cmd' = [cmd EXCEPT
                 !.run = 2,
                 !.first = [processed |-> cmd.processed,
                            skipped |-> cmd.skipped, errors |-> cmd.errors],
                 !.force = FALSE, !.phase = "start", !.urls_data = <<>>,
                 !.i = 1, !.processed = 0, !.skipped = 0, !.errors = 0]
    /\ UNCHANGED <<extractVars, callVars, db, webVars, service, last>>

NextRerun == NextCmd \/ CmdRerun

SpecRerun == InitCmd /\ [][NextRerun]_vars

\* C26: after a first run that processed every URL of the sitemap, a second
\* run on the same sitemap without --force processes no URL: it skips every
\* URL as up to date and changes no entry.
RerunSkipsAll ==
    (/\ cmd.run = 2 /\ cmd.phase = "done"
     /\ ~cmd.dry_run
     /\ cmd.first.processed = Len(cmd.sitemap)) =>
      /\ cmd.processed = 0 /\ cmd.errors = 0
      /\ cmd.skipped = Len(cmd.sitemap)
      /\ db = cmd.db0

====
